---- MODULE Spec2Model ----
(***************************************************************************)
(* rusty_website: the connection scheduler (start_server), the per-        *)
(* connection handler (handle_connection) and the logging consumer         *)
(* (logger).  All three run as futures of ONE task: start_server polls     *)
(* the logger, the listener and the FuturesUnordered set from inside       *)
(* tokio::select!, so the code between two suspension points of any of     *)
(* them is one atomic step.                                                *)
(*                                                                         *)
(* Option<T> is modelled as a sequence of length at most one:              *)
(* None = <<>>, Some(v) = <<v>>.  Wall-clock values (cxn_time, start_time) *)
(* are not part of the state; every other field of Log is.                 *)
(***************************************************************************)
EXTENDS Integers, Sequences, FiniteSets, TLC

\* Bound: how many connections the listener accepts in a run.
MaxConn == 2

None == <<>>
Some(v) == <<v>>

Conns == 1..MaxConn

\* Bounds: threads calling log_err, and calls of log_err in a run.
MaxCallers == 2
MaxCalls == 3

Callers == 1..MaxCallers

\* [u8; 4]::default(), the value `unwrap_or_default` substitutes for None.
IpDefault == <<0, 0, 0, 0>>

\* RequestInfo values the external parser can return: host and path both
\* present (one for Site; for Mycology the menu path and a category path),
\* only the path absent, only the host absent, both absent.
Requests ==
  { [host |-> Some("Site"), path |-> Some("/"), user_agent |-> Some("curl"),
     ip |-> Some(<<10, 0, 0, 1>>), referer |-> None],
    [host |-> Some("Mycology"), path |-> Some("/"), user_agent |-> Some("curl"),
     ip |-> Some(<<10, 0, 0, 1>>), referer |-> None],
    [host |-> Some("Mycology"), path |-> Some("/boletes"), user_agent |-> Some("curl"),
     ip |-> Some(<<10, 0, 0, 1>>), referer |-> None],
    [host |-> Some("Mycology"), path |-> None, user_agent |-> None,
     ip |-> Some(<<0, 0, 0, 0>>), referer |-> Some("ref")],
    [host |-> None, path |-> Some("/boletes"), user_agent |-> Some("curl"),
     ip |-> Some(<<10, 0, 0, 2>>), referer |-> None],
    [host |-> None, path |-> None, user_agent |-> None,
     ip |-> None, referer |-> None] }

\* Status lines as whitespace-separated tokens, and the responses the
\* providers / err::nf404 hand back (status line, content length).
Http200 == <<"HTTP/1.1", "200", "OK">>
Http404 == <<"HTTP/1.1", "404", "NOT", "FOUND">>
Resp200 == [status |-> Http200, length |-> 5]
Resp404 == [status |-> Http404, length |-> 3]

\* b.contains("HTTP") for the tokens of the status lines above.
ContainsHttp(tok) == tok = "HTTP/1.1"

\* The fold of run.rs:86-92: drop the tokens containing "HTTP", prefix each
\* kept token with one space.
RECURSIVE StatusFold(_, _)
StatusFold(a, toks) ==
  IF toks = <<>> THEN a
  ELSE StatusFold(IF ContainsHttp(Head(toks)) THEN a ELSE a \o " " \o Head(toks),
                  Tail(toks))

NormalStatus(status) == StatusFold("", status)

\* What a provider can hand back without parse::yaml failing: a page, an
\* error that replace_err turns into the 404 page, or an error that stays
\* one (out = None is the `?` of run.rs:84 propagating).
Answers(outs) == { [log_err |-> FALSE, panics |-> FALSE, out |-> o] : o \in outs }

\* generate.rs:67, path.replace('/', ""), on the paths of Requests.
RequestedCategory(path) == IF path = "/boletes" THEN "boletes" ELSE ""

\* generate.rs:66-91 when fs::read_to_string fails in parse::yaml
\* (parse.rs:114-117): log_err is called and the categories are empty.
\* The read of generate.rs:69 failing: the category is not found; for the
\* empty category the arm (false, true) still serves the menu page (or
\* html::from_file fails), for any other the arm `_` is the error.  The read
\* of generate.rs:84 failing (a category found by the first read):
\* filter_data's unwrap (generate.rs:42) panics on the empty list.
YamlUnreadable(category) ==
  IF category = ""
    THEN { [log_err |-> TRUE, panics |-> FALSE, out |-> o] :
             o \in {Some(Resp200), Some(Resp404), None} }
    ELSE { [log_err |-> TRUE, panics |-> FALSE, out |-> o] : o \in {Some(Resp404), None} }
         \cup { [log_err |-> TRUE, panics |-> TRUE, out |-> None] }

\* generate.rs:69 and :84 read the file twice: when both reads succeed but
\* the second no longer holds the category the first one found,
\* filter_data's unwrap (generate.rs:42) panics without log_err being called.
YamlChanged(category) ==
  IF category = "" THEN {}
  ELSE { [log_err |-> FALSE, panics |-> TRUE, out |-> None] }

\* A handler that asked a provider whatever the request held.
DispatchAlways(req) == Answers({Some(Resp200), Some(Resp404), None})

\* run.rs:76-84: the outcomes of the dispatch.  With host and path present
\* the provider of the host is asked (mycology::generate::get reads the
\* YAML file, response::get does not); otherwise err::nf404(), which may
\* itself fail.
DispatchOutcomes(req) ==
  IF req.host # None /\ req.path # None
    THEN IF req.host = Some("Mycology")
           THEN Answers({Some(Resp200), Some(Resp404), None})
                \cup YamlUnreadable(RequestedCategory(req.path[1]))
                \cup YamlChanged(RequestedCategory(req.path[1]))
           ELSE Answers({Some(Resp200), Some(Resp404), None})
    ELSE Answers({Some(Resp404), None})

VARIABLES
  sched,        \* start_server: "bind", "loop", or how it ended
  branch,       \* the select branch the last completed loop iteration took
  nconn,        \* connections accepted so far
  futures,      \* the FuturesUnordered set: in-flight handlers
  hpc,          \* per connection: where its handler is / how it ended
  hdata,        \* per in-flight handler: Some([req, resp]) once parsed
  queue,        \* the unbounded mpsc channel
  log_mutex,    \* the Mutex around the Sender: 0 free, else the handler holding it
  lpc,          \* logger: "init", "recv", "done", "dropped"
  file,         \* result of the logger's open: "unopened", "ok", "err"
  prev_ip,      \* logger local
  total_conn,   \* logger local
  unique_conn,  \* logger local
  file_log,     \* every write_all of the logger on the access log: [rec, res]
  stdout,       \* records printed by print!
  sent,         \* history: events in the order they were enqueued
  received,     \* history: events in the order recv returned them
  \* shared by the logger, log_err and the scheduler
  access_log,   \* consts::LOG_FILE: what has been appended, in order
  stderr,       \* diagnostics printed by eprintln!
  \* log_err (log.rs:36-71) and its callers
  le_pc,        \* per calling thread: "idle", "open", "use", "head", "tail",
                \* "report", "panicked"
  le_calls,     \* calls of log_err entered so far
  once,         \* OPENLOGFILE: "uninit", "running", Some(Mutex<File>) "ok", None "failed"
  le_opens,     \* how many times the initialiser has opened the file
  le_mutex,     \* the Mutex around the file: 0 free, else the caller holding it
  \* to_elapsed (log.rs:116-125) applied to one duration
  micros,       \* self.elapsed()?.as_micros()
  rendered      \* Some([value, unit]) once formatted

srvVars == <<sched, branch, nconn, futures, hpc, hdata, queue, log_mutex, lpc, file, prev_ip,
             total_conn, unique_conn, file_log, stdout, sent, received>>
ioVars == <<access_log, stderr>>
mainVars == <<srvVars, ioVars>>
leVars == <<le_pc, le_calls, once, le_opens, le_mutex>>
fmtVars == <<micros, rendered>>
auxVars == <<leVars, fmtVars>>

vars == <<mainVars, auxVars>>

schedVars == <<sched, branch, nconn, futures, hpc, hdata>>
loggerVars == <<lpc, file, prev_ip, total_conn, unique_conn, file_log, stdout,
                received>>

----------------------------------------------------------------------------
\* log.rs: formatting helpers

\* impl ToString for Option<IpAddr>
IpToString(ip) ==
  IF ip = None THEN "No IP"
  ELSE ToString(ip[1][1]) \o "." \o ToString(ip[1][2]) \o "."
       \o ToString(ip[1][3]) \o "." \o ToString(ip[1][4])

\* impl ToString for Option<Host>; the domain names are consts::domains.
HostToString(host) ==
  IF host = None THEN "None"
  ELSE IF host[1] = "Mycology" THEN "domains::MYCOLOGY" ELSE "domains::NO_DOMAIN"

\* unwrap_or_else(none)
UnwrapOrNone(o) == IF o = None THEN "None" ELSE o[1]

\* Option<IpAddr>::unwrap_or_default
UnwrapOrDefault(ip) == IF ip = None THEN IpDefault ELSE ip[1]

\* log.rs:223, the test that selects the compact record
SameIp(prev, ip) == UnwrapOrDefault(prev) = UnwrapOrDefault(ip)

\* mini_log / big_log: the record as its rendered fields
MiniLog(total, log) ==
  [fmt |-> "mini", total |-> total, unique |-> 0, ip |-> IpToString(log.ip),
   status |-> log.status, length |-> log.length,
   path |-> UnwrapOrNone(log.path), host |-> "", referer |-> "", agent |-> ""]

BigLog(total, unique, log) ==
  [fmt |-> "big", total |-> total, unique |-> unique, ip |-> IpToString(log.ip),
   status |-> log.status, length |-> log.length,
   path |-> UnwrapOrNone(log.path), host |-> HostToString(log.host),
   referer |-> UnwrapOrNone(log.referer), agent |-> UnwrapOrNone(log.user_agent)]

----------------------------------------------------------------------------
\* run.rs

\* The Log value handle_connection builds (run.rs:101-111); conn is the
\* identity of the connection, carried for the histories only.
MakeLog(c, req, resp) ==
  [path |-> req.path, host |-> req.host, ip |-> req.ip,
   user_agent |-> req.user_agent, referer |-> req.referer,
   status |-> NormalStatus(resp.status), length |-> resp.length, conn |-> c]

\* UnboundedSender::send: enqueue at the tail
Send(q, m) == Append(q, m)

\* A scheduler that kept no sender of its own.
ArcCountHandlersOnly == Cardinality(futures)

\* Strong references to the one Sender behind the Arc: start_server's
\* log_send plus the clone each in-flight handler owns.
ArcCount == (IF sched \in {"bind", "loop"} THEN 1 ELSE 0) + Cardinality(futures)

\* The receiver half exists as long as the logger future holds it.
ReceiverAlive == lpc \in {"init", "recv"}

MainInit ==
  /\ sched = "bind"
  /\ branch = "none"
  /\ nconn = 0
  /\ futures = {}
  /\ hpc = [c \in Conns |-> "none"]
  /\ hdata = [c \in Conns |-> None]
  /\ queue = <<>>
  /\ log_mutex = 0
  /\ lpc = "init"
  /\ file = "unopened"
  /\ prev_ip = None
  /\ total_conn = 0
  /\ unique_conn = 0
  /\ file_log = <<>>
  /\ stdout = <<>>
  /\ sent = <<>>
  /\ received = <<>>
  /\ access_log = <<>>
  /\ stderr = <<>>

\* No caller has entered log_err; OPENLOGFILE is a fresh OnceLock.
LeInit ==
  /\ le_pc = [t \in Callers |-> "idle"]
  /\ le_calls = 0
  /\ once = "uninit"
  /\ le_opens = 0
  /\ le_mutex = 0

\* Nothing is being formatted.
FmtIdle ==
  /\ micros = None
  /\ rendered = None

Init == MainInit /\ LeInit /\ FmtIdle

\* start_server returns or unwinds: its locals (the handler set, the logger
\* future with the receiver and the file, the sender) are dropped.
DropAll(how) ==
  /\ sched' = how
  /\ hpc' = [c \in Conns |-> IF c \in futures THEN "dropped" ELSE hpc[c]]
  /\ hdata' = [c \in Conns |-> None]
  /\ futures' = {}
  /\ lpc' = "dropped"
  /\ queue' = <<>>

\* run.rs:28
BindOk ==
  /\ UNCHANGED <<auxVars, log_mutex, access_log>>
  /\ sched = "bind"
  /\ sched' = "loop"
  /\ UNCHANGED <<branch, nconn, futures, hpc, hdata, queue, lpc, file, prev_ip,
                 total_conn, unique_conn, file_log, stdout, stderr, sent, received>>

BindErr ==
  /\ UNCHANGED <<auxVars, log_mutex, access_log>>
  /\ sched = "bind"
  /\ DropAll("bind_failed")
  /\ UNCHANGED <<branch, nconn, file, prev_ip, total_conn, unique_conn,
                 file_log, stdout, stderr, sent, received>>

\* run.rs:45-50, accept returned Ok
AcceptOk ==
  /\ UNCHANGED <<auxVars, log_mutex, access_log>>
  /\ sched = "loop"
  /\ nconn < MaxConn
  /\ nconn' = nconn + 1
  /\ futures' = futures \cup {nconn + 1}
  /\ hpc' = [hpc EXCEPT ![nconn + 1] = "parse"]
  /\ branch' = "accept"
  /\ UNCHANGED <<sched, hdata, queue, lpc, file, prev_ip, total_conn,
                 unique_conn, file_log, stdout, stderr, sent, received>>

\* run.rs:46, accept returned Err: `result?` returns from start_server
AcceptErr ==
  /\ UNCHANGED <<auxVars, log_mutex, access_log>>
  /\ sched = "loop"
  /\ DropAll("accept_failed")
  /\ branch' = "accept"
  /\ UNCHANGED <<nconn, file, prev_ip, total_conn, unique_conn, file_log,
                 stdout, stderr, sent, received>>

\* run.rs:52-56 with an empty set: futures.next() is ready with None at
\* once, the branch is taken and its body does nothing.
NextNone ==
  /\ UNCHANGED <<auxVars, log_mutex, access_log>>
  /\ sched = "loop"
  /\ futures = {}
  /\ branch' = "next_none"
  /\ UNCHANGED <<sched, nconn, futures, hpc, hdata, queue, lpc, file, prev_ip,
                 total_conn, unique_conn, file_log, stdout, stderr, sent, received>>

\* What eprintln!("{}", e) of run.rs:54 adds for a handler that returned Err,
\* when stderr takes the write.
Report(err, c) == Append(err, [src |-> "scheduler", kind |-> "handler", conn |-> c])

\* The set after futures.next() has yielded handler c.
Release(set, c) == set \ {c}

\* Handler c returns res ("ok" / "err") with err on stderr and q on the
\* queue; in the same poll futures.next() yields it and the select takes
\* run.rs:52-56.  For an Err the body prints it: eprintln! either writes the
\* line, or panics because stderr does not take the write, and the panic
\* unwinds start_server.
Complete(c, res, err, q) ==
  \/ /\ futures' = Release(futures, c)
     /\ hpc' = [hpc EXCEPT ![c] = res]
     /\ hdata' = [hdata EXCEPT ![c] = None]
     /\ branch' = "next_some"
     /\ stderr' = IF res = "err" THEN Report(err, c) ELSE err
     /\ queue' = q
     /\ UNCHANGED <<sched, nconn, lpc>>
  \/ /\ res = "err"
     /\ sched' = "print_panicked"
     /\ hpc' = [d \in Conns |-> IF d = c THEN "err"
                                ELSE IF d \in futures THEN "dropped" ELSE hpc[d]]
     /\ hdata' = [d \in Conns |-> None]
     /\ futures' = {}
     /\ lpc' = "dropped"
     /\ queue' = <<>>
     /\ branch' = "next_some"
     /\ stderr' = err
     /\ UNCHANGED nconn

\* The thread that polls start_server, as a caller of log_err.
ServerTask == 0

\* What the environment decides during one call of log_err: whether the
\* open succeeds, whether each of the two writes of write! succeeds, and
\* whether stderr takes the diagnostic.
LeOutcomes == [open_ok : BOOLEAN, head_ok : BOOLEAN, tail_ok : BOOLEAN, said : BOOLEAN]

\* OnceLock::get_or_init runs the closure only for the caller that finds the
\* cell uninitialised; a caller that finds an initialiser running waits.
MayInit(o) == o = "uninit"

\* log.rs:36-71 run from entry to exit by a caller nobody competes with,
\* from cell value o under the outcomes e: the cell afterwards, whether the
\* file was opened, the pieces appended, the diagnostics printed and whether
\* an eprintln! panicked.  A panic inside the initialiser leaves the cell
\* uninitialised (OnceLock::get_or_init).
LogErrRun(o, e) ==
  LET opening == MayInit(o)
      open_panics == opening /\ ~e.open_ok /\ ~e.said
      cell == IF ~opening THEN o
              ELSE IF e.open_ok THEN "ok"
              ELSE IF e.said THEN "failed" ELSE "uninit"
      writes == cell = "ok"
      pieces == IF ~writes \/ ~e.head_ok THEN <<>>
                ELSE IF ~e.tail_ok THEN <<"head">> ELSE <<"head", "tail">>
      failed == writes /\ ~(e.head_ok /\ e.tail_ok)
  IN [once |-> cell,
      opened |-> IF opening THEN 1 ELSE 0,
      pieces |-> pieces,
      diags |-> IF opening /\ ~e.open_ok /\ e.said THEN <<"open">>
                ELSE IF failed /\ e.said THEN <<"write">> ELSE <<>>,
      panicked |-> open_panics \/ (failed /\ ~e.said)]

\* log_err was not called.
LogErrSkipped(o) ==
  [once |-> o, opened |-> 0, pieces |-> <<>>, diags |-> <<>>, panicked |-> FALSE]

\* The line "ERROR - {:?}\n" in the access log, as the pieces caller t wrote.
ErrorPieces(t, pieces) ==
  [i \in 1..Len(pieces) |-> [fmt |-> "error", caller |-> t, piece |-> pieces[i]]]

\* The lines log_err's eprintln! put on stderr for caller t.
ErrorDiags(t, kinds) ==
  [i \in 1..Len(kinds) |-> [src |-> "log_err", kind |-> kinds[i], conn |-> t]]

\* run.rs:66-95: parse completes; dispatch and status are computed without
\* suspending, a log_err call of the provider included; the handler then
\* waits in write_all.  A panic under the dispatch unwinds start_server.
StepParse(c) ==
  /\ UNCHANGED <<fmtVars, log_mutex, le_pc, le_mutex>>
  /\ sched = "loop"
  /\ c \in futures
  /\ hpc[c] = "parse"
  /\ \/ /\ Complete(c, "err", stderr, queue)
        /\ UNCHANGED <<le_calls, once, le_opens, access_log>>
     \/ \E req \in Requests : \E d \in DispatchOutcomes(req) :
        \E e \in IF d.log_err THEN LeOutcomes ELSE {[open_ok |-> TRUE, head_ok |-> TRUE,
                                                     tail_ok |-> TRUE, said |-> TRUE]} :
          LET r == IF d.log_err THEN LogErrRun(once, e) ELSE LogErrSkipped(once)
              err == stderr \o ErrorDiags(ServerTask, r.diags)
          IN /\ once' = r.once
             /\ le_opens' = le_opens + r.opened
             /\ le_calls' = le_calls + (IF d.log_err THEN 1 ELSE 0)
             /\ access_log' = access_log \o ErrorPieces(ServerTask, r.pieces)
             /\ IF r.panicked
                  THEN /\ DropAll("print_panicked")
                       /\ stderr' = err
                       /\ UNCHANGED <<branch, nconn>>
                  ELSE IF d.panics
                  THEN /\ DropAll("unwrap_panicked")
                       /\ stderr' = err
                       /\ UNCHANGED <<branch, nconn>>
                  ELSE IF d.out = None
                  THEN Complete(c, "err", err, queue)
                  ELSE /\ hpc' = [hpc EXCEPT ![c] = "write"]
                       /\ hdata' = [hdata EXCEPT ![c] = Some([req |-> req, resp |-> d.out[1]])]
                       /\ stderr' = err
                       /\ UNCHANGED <<sched, branch, nconn, futures, queue, lpc>>
  /\ UNCHANGED <<file, prev_ip, total_conn, unique_conn, file_log,
                 stdout, sent, received>>

\* run.rs:120-134, Prepend::prepend_headers: the status line as the
\* provider gave it and Content-Length from the content.  A handler at
\* "write" is inside write_all of PrependHeaders(its response); at "flush"
\* those bytes are on the stream.
PrependHeaders(resp) ==
  [status |-> resp.status, content_length |-> resp.length]

\* A handler that took the guard before awaiting the flush.
GuardBeforeFlush == TRUE

\* Whether a MutexGuard of log_send is alive while the handler waits in
\* flush: the guard is a temporary of the statement run.rs:98-112, which
\* comes after the last await.
GuardAcrossFlush == FALSE

\* run.rs:95
StepWrite(c) ==
  /\ UNCHANGED <<auxVars, access_log>>
  /\ sched = "loop"
  /\ c \in futures
  /\ hpc[c] = "write"
  /\ \/ /\ hpc' = [hpc EXCEPT ![c] = "flush"]
        /\ IF GuardAcrossFlush
             THEN log_mutex = 0 /\ log_mutex' = c
             ELSE log_mutex' = log_mutex
        /\ UNCHANGED <<sched, branch, nconn, futures, hdata, stderr, queue, lpc>>
     \/ Complete(c, "err", stderr, queue) /\ UNCHANGED log_mutex
  /\ UNCHANGED <<file, prev_ip, total_conn, unique_conn, file_log,
                 stdout, sent, received>>

\* A handler that submitted its event without looking at the flush result.
SubmitsRegardless(flush_ok) == TRUE

\* Whether the handler goes on to run.rs:98-112 after the flush returned:
\* `stream.flush().await?` returns early on Err.
SubmitsAfterFlush(flush_ok) == flush_ok

\* run.rs:96-113.  lock() is granted when the mutex is free; send does not
\* wait (the channel is unbounded); the guard is dropped at the end of the
\* statement, before the handler returns.
StepFlush(c) ==
  /\ UNCHANGED <<auxVars, access_log>>
  /\ sched = "loop"
  /\ c \in futures
  /\ hpc[c] = "flush"
  /\ \E flush_ok \in BOOLEAN :
       LET log == MakeLog(c, hdata[c][1].req, hdata[c][1].resp) IN
       /\ SubmitsAfterFlush(flush_ok) => log_mutex \in {0, c}
       /\ log_mutex' = IF log_mutex = c THEN 0 ELSE log_mutex
       /\ IF SubmitsAfterFlush(flush_ok)
            THEN IF ReceiverAlive
                   THEN /\ sent' = Append(sent, log)
                        /\ Complete(c, IF flush_ok THEN "ok" ELSE "err", stderr,
                                    Send(queue, log))
                   ELSE \* send(..).unwrap() panics
                        /\ DropAll("panicked")
                        /\ UNCHANGED <<branch, nconn, stderr, sent>>
            ELSE /\ Complete(c, "err", stderr, queue)
                 /\ UNCHANGED sent
  /\ UNCHANGED <<file, prev_ip, total_conn, unique_conn, file_log, stdout, received>>

----------------------------------------------------------------------------
\* log.rs: logger

\* log.rs:157-164, the first poll of the logger future
LoggerOpen ==
  /\ UNCHANGED <<auxVars, log_mutex, access_log>>
  /\ sched = "loop"
  /\ lpc = "init"
  /\ lpc' = "recv"
  /\ file' \in {"ok", "err"}
  /\ UNCHANGED <<schedVars, queue, prev_ip, total_conn, unique_conn, file_log,
                 stdout, stderr, sent, received>>

\* UnboundedReceiver::recv returns the head
RecvHead(q) == Head(q)
RecvRest(q) == Tail(q)

\* log.rs:222
CountTotal(t) == t + 1

\* Where the logger is after write_all returned res: log.rs:230-232 only
\* reports an Err, the loop goes on to the next recv.
AfterWrite(res) == "recv"

\* A logger that forgot the mirror.
EmitNothing(out, string) == out

\* log.rs:233, print!("{string}"), when stdout takes the write
Emit(out, string) == Append(out, string)

\* log.rs:166-237, one turn of the loop: recv, then the match.  eprintln!
\* (log.rs:173, 231) and print! (log.rs:233) panic when the stream does not
\* take the write; the logger is polled by start_server, so the panic
\* unwinds start_server with whatever the turn had done up to there.
LoggerPoll ==
  /\ UNCHANGED <<auxVars, log_mutex>>
  /\ sched = "loop"
  /\ lpc = "recv"
  /\ queue # <<>> \/ ArcCount = 0
  /\ IF queue = <<>>
       THEN \* recv gave None: logger returns, select takes run.rs:42
            /\ DropAll("panicked")
            /\ branch' = "logger"
            /\ UNCHANGED <<nconn, file, prev_ip, total_conn, unique_conn,
                           file_log, stdout, stderr, sent, received, access_log>>
       ELSE LET m == RecvHead(queue) IN
            /\ received' = Append(received, m)
            /\ UNCHANGED <<branch, nconn, file, sent>>
            /\ IF file = "err"
                 THEN /\ UNCHANGED <<prev_ip, total_conn, unique_conn, file_log,
                                     stdout, access_log>>
                      /\ \/ /\ stderr' = Append(stderr, [src |-> "logger", kind |-> "open", conn |-> 0])
                            /\ queue' = RecvRest(queue)
                            /\ UNCHANGED <<sched, futures, hpc, hdata, lpc>>
                         \/ /\ DropAll("print_panicked")
                            /\ UNCHANGED stderr
                 ELSE LET total == CountTotal(total_conn)
                          same == SameIp(prev_ip, m.ip)
                          unique == IF same THEN unique_conn ELSE unique_conn + 1
                          string == IF same THEN MiniLog(total, m)
                                            ELSE BigLog(total, unique, m)
                      IN /\ total_conn' = total
                         /\ unique_conn' = unique
                         /\ \E res \in {"ok", "err"} :
                            \E said \in IF res = "err" THEN BOOLEAN ELSE {TRUE} :
                            \E printed \in IF said THEN BOOLEAN ELSE {FALSE} :
                              /\ file_log' = Append(file_log, [rec |-> string, res |-> res])
                              /\ access_log' = IF res = "ok" THEN Append(access_log, string)
                                                             ELSE access_log
                              /\ stderr' = IF res = "err" /\ said
                                             THEN Append(stderr, [src |-> "logger", kind |-> "write", conn |-> 0])
                                             ELSE stderr
                              /\ IF printed
                                   THEN /\ stdout' = Emit(stdout, string)
                                        /\ prev_ip' = m.ip
                                        /\ lpc' = AfterWrite(res)
                                        /\ queue' = RecvRest(queue)
                                        /\ UNCHANGED <<sched, futures, hpc, hdata>>
                                   ELSE /\ DropAll("print_panicked")
                                        /\ UNCHANGED <<stdout, prev_ip>>

Next ==
  \/ BindOk
  \/ BindErr
  \/ AcceptOk
  \/ AcceptErr
  \/ NextNone
  \/ \E c \in Conns : StepParse(c)
  \/ \E c \in Conns : StepWrite(c)
  \/ \E c \in Conns : StepFlush(c)
  \/ LoggerOpen
  \/ LoggerPoll

Spec == Init /\ [][Next]_vars

----------------------------------------------------------------------------
\* log.rs:36-71: log_err, called from any thread

\* The pieces log_err has appended to the access log: <<caller, piece>>.
ErrorLines == SelectSeq(access_log, LAMBDA x : x.fmt = "error")
le_file == [i \in 1..Len(ErrorLines) |-> <<ErrorLines[i].caller, ErrorLines[i].piece>>]

\* log.rs:44: get_or_init: become the initialiser, or (cell complete) get the
\* cached value.
LeEnter(t) ==
  /\ UNCHANGED <<srvVars, ioVars, fmtVars>>
  /\ le_pc[t] = "idle"
  /\ le_calls < MaxCalls
  /\ le_calls' = le_calls + 1
  /\ IF MayInit(once)
       THEN /\ once' = "running"
            /\ le_pc' = [le_pc EXCEPT ![t] = "open"]
       ELSE /\ once # "running"
            /\ once' = once
            /\ le_pc' = [le_pc EXCEPT ![t] = "use"]
  /\ UNCHANGED <<le_opens, le_mutex>>

\* log.rs:45-57: the closure: open, then Some(Mutex), or the diagnostic and
\* None; when eprintln! panics the closure unwinds, the cell stays
\* uninitialised and the calling thread is gone.
LeOpen(t) ==
  /\ UNCHANGED <<srvVars, fmtVars, access_log>>
  /\ le_pc[t] = "open"
  /\ le_opens' = le_opens + 1
  /\ \/ /\ once' = "ok"
        /\ le_pc' = [le_pc EXCEPT ![t] = "use"]
        /\ UNCHANGED stderr
     \/ /\ once' = "failed"
        /\ le_pc' = [le_pc EXCEPT ![t] = "use"]
        /\ stderr' = stderr \o ErrorDiags(t, <<"open">>)
     \/ /\ once' = "uninit"
        /\ le_pc' = [le_pc EXCEPT ![t] = "panicked"]
        /\ UNCHANGED stderr
  /\ UNCHANGED <<le_calls, le_mutex>>

\* Mutex::lock is granted when nobody holds the mutex.
LockFree(m) == m = 0

\* log.rs:60-62: None: return; Some(f): f.lock()
LeUse(t) ==
  /\ UNCHANGED <<srvVars, ioVars, fmtVars>>
  /\ le_pc[t] = "use"
  /\ IF once = "failed"
       THEN /\ le_pc' = [le_pc EXCEPT ![t] = "idle"]
            /\ UNCHANGED le_mutex
       ELSE /\ LockFree(le_mutex)
            /\ le_mutex' = t
            /\ le_pc' = [le_pc EXCEPT ![t] = "head"]
  /\ UNCHANGED <<le_calls, once, le_opens>>

\* log.rs:67: the guard is dropped at the end of the block, whatever write!
\* returned: for Ok log_err returns, for Err the diagnostic is still to be
\* printed.
LeUnlock(t, res) ==
  /\ le_mutex' = 0
  /\ le_pc' = [le_pc EXCEPT ![t] = IF res = "err" THEN "report" ELSE "idle"]

\* log.rs:66: write! sends the text to the unbuffered File piece by piece;
\* the first piece ("ERROR - ")
LeWriteHead(t) ==
  /\ UNCHANGED <<srvVars, fmtVars, stderr>>
  /\ le_pc[t] = "head"
  /\ \/ /\ access_log' = access_log \o ErrorPieces(t, <<"head">>)
        /\ le_pc' = [le_pc EXCEPT ![t] = "tail"]
        /\ UNCHANGED le_mutex
     \/ /\ LeUnlock(t, "err")
        /\ UNCHANGED access_log
  /\ UNCHANGED <<le_calls, once, le_opens>>

\* log.rs:66: the rest of the text, up to the newline
LeWriteTail(t) ==
  /\ UNCHANGED <<srvVars, fmtVars, stderr>>
  /\ le_pc[t] = "tail"
  /\ \/ /\ access_log' = access_log \o ErrorPieces(t, <<"tail">>)
        /\ LeUnlock(t, "ok")
     \/ /\ LeUnlock(t, "err")
        /\ UNCHANGED access_log
  /\ UNCHANGED <<le_calls, once, le_opens>>

\* log.rs:68, after the guard is gone: eprintln! prints the diagnostic and
\* log_err returns, or panics and the calling thread is gone.
LeReport(t) ==
  /\ UNCHANGED <<srvVars, fmtVars, access_log>>
  /\ le_pc[t] = "report"
  /\ \/ /\ stderr' = stderr \o ErrorDiags(t, <<"write">>)
        /\ le_pc' = [le_pc EXCEPT ![t] = "idle"]
     \/ /\ le_pc' = [le_pc EXCEPT ![t] = "panicked"]
        /\ UNCHANGED stderr
  /\ UNCHANGED <<le_calls, once, le_opens, le_mutex>>

LeNext ==
  \/ \E t \in Callers : LeEnter(t)
  \/ \E t \in Callers : LeOpen(t)
  \/ \E t \in Callers : LeUse(t)
  \/ \E t \in Callers : LeWriteHead(t)
  \/ \E t \in Callers : LeWriteTail(t)
  \/ \E t \in Callers : LeReport(t)

LogErrSpec == Init /\ [][LeNext]_vars

----------------------------------------------------------------------------
\* log.rs:115-125: to_elapsed

\* The thresholds of the match arms (log.rs:119-121).
MicrosPerMilli == 1000
MicrosPerSec == 1000000

\* Bound: how far around each duration of interest the inputs reach.
Window == 5

\* The durations formatted: around zero, the two thresholds and the
\* durations 500, 2,500 , 2,500,000 and 3,000,000; None is elapsed()
\* failing with SystemTimeError.
ElapsedInputs ==
  {None} \cup
  { Some(t) : t \in UNION { {q \in (p - Window)..(p + Window) : q >= 0} :
                            p \in {0, 500, MicrosPerMilli, 2500, MicrosPerSec,
                                   2500000, 3000000} } }

\* Arms that take the threshold itself into the smaller unit.
ToElapsedInclusive(e) ==
  IF e = None THEN "Time has gone backwards :("
  ELSE IF e[1] <= MicrosPerMilli THEN ToString(e[1]) \o "μs"
  ELSE IF e[1] <= MicrosPerSec THEN ToString(e[1] \div MicrosPerMilli) \o "ms"
  ELSE ToString(e[1] \div MicrosPerSec) \o "s"

\* impl TimeManip for SystemTime, to_elapsed, on the result of
\* self.elapsed() in microseconds
ToElapsed(e) ==
  IF e = None THEN "Time has gone backwards :("
  ELSE IF e[1] < MicrosPerMilli THEN ToString(e[1]) \o "μs"
  ELSE IF e[1] < MicrosPerSec THEN ToString(e[1] \div MicrosPerMilli) \o "ms"
  ELSE ToString(e[1] \div MicrosPerSec) \o "s"

FmtInit ==
  /\ MainInit
  /\ LeInit
  /\ micros \in ElapsedInputs
  /\ rendered = None

\* log.rs:194: let turnaround = cxn_time.to_elapsed()
FormatElapsed ==
  /\ rendered = None
  /\ rendered' = Some(ToElapsed(micros))
  /\ UNCHANGED <<mainVars, leVars, micros>>

FmtNext == FormatElapsed

FmtSpec == FmtInit /\ [][FmtNext]_vars

\* The select loop under fair branch selection: a branch that stays ready is
\* eventually taken and the logger future, polled from the loop, eventually
\* runs.  Nothing is assumed of the clients (a handler may wait for ever) nor
\* of the listener failing.
FairSpec ==
  /\ Spec
  /\ WF_vars(AcceptOk)
  /\ WF_vars(LoggerOpen)
  /\ WF_vars(LoggerPoll)

----------------------------------------------------------------------------
\* Properties

\* Number of events connection c has put on the queue.
Submitted(c) == Cardinality({i \in 1..Len(sent) : sent[i].conn = c})

IsPrefix(s, t) == Len(s) <= Len(t) /\ \A i \in 1..Len(s) : s[i] = t[i]

\* The records of write_all calls, in call order.
Attempted == [i \in 1..Len(file_log) |-> file_log[i].rec]

\* The records the file holds completely: those whose write_all returned Ok.
RECURSIVE Written(_)
Written(fl) ==
  IF fl = <<>> THEN <<>>
  ELSE IF Head(fl).res = "ok" THEN <<Head(fl).rec>> \o Written(Tail(fl))
       ELSE Written(Tail(fl))

FileRecords == Written(file_log)

\* C1: a connection's handler submits at most one Log event over its whole
\* lifetime: exactly one if it returned Ok, none if it returned an error (or
\* has not returned); an error and an event never go together.
C1_AtMostOneEvent ==
  \A c \in Conns :
    /\ Submitted(c) <= 1
    /\ hpc[c] = "ok" => Submitted(c) = 1
    /\ hpc[c] # "ok" => Submitted(c) = 0

\* C1 witness: one handler has returned Ok with its single event while another
\* has returned an error with none.
C1_Witness ==
  \E c, d \in Conns : hpc[c] = "ok" /\ Submitted(c) = 1 /\ hpc[d] = "err" /\ Submitted(d) = 0

\* C2 as stated: total_conn goes up by exactly one with every event the
\* logger receives, whatever the state of the access-log file, and changes at
\* no other step.
C2_TotalPerReceived ==
  [][total_conn' = IF Len(received') > Len(received) THEN total_conn + 1
                   ELSE total_conn]_vars

\* The same for the events received with the access-log file open (a failed
\* write included); an event received after the open failed (log.rs:173)
\* leaves total_conn as it is.
C2_UnlessOpenFails ==
  [][total_conn' = IF Len(received') > Len(received) /\ file = "ok"
                     THEN total_conn + 1
                     ELSE total_conn]_vars

\* C3: for an event formatted by the logger after an earlier one,
\* unique_conn goes up and the verbose record is emitted exactly when its IP
\* differs from the preceding event's IP as Option values (None equal to None
\* only); otherwise the compact record is emitted and unique_conn stays.
C3_UniqueIffIpDiffers ==
  [][(Len(received') > Len(received) /\ file = "ok" /\ received # <<>>) =>
       LET m == received'[Len(received')]
           before == received[Len(received)]
           out == stdout'[Len(stdout')]
       IN /\ Len(stdout') = Len(stdout) + 1
          /\ IF m.ip # before.ip
               THEN unique_conn' = unique_conn + 1 /\ out.fmt = "big"
               ELSE unique_conn' = unique_conn /\ out.fmt = "mini"]_vars

\* The IPs of the events in s are pairwise distinct (None is one value).
DistinctIps(s) == \A i, j \in 1..Len(s) : i # j => s[i].ip # s[j].ip

\* C4: once the logger, with its file open, has drained N events with
\* pairwise distinct IPs, unique_conn = N and total_conn = N.
C4_DistinctAllUnique ==
  (file = "ok" /\ sched = "loop" /\ queue = <<>> /\ received = sent /\ DistinctIps(received))
    => (unique_conn = Len(received) /\ total_conn = Len(received))

\* The log records in the access log, without the lines of log_err.
LoggerLines == SelectSeq(access_log, LAMBDA x : x.fmt # "error")

\* C5 as stated: what has been appended to the file is, in order, what has
\* been printed to stdout.
C5_FileEqualsStdout == access_log = stdout

\* C5 amended: every record handed to write_all is then printed to stdout,
\* in the same order, whether or not the write succeeded; only the last one
\* can be missing, when print! or the eprintln! before it panicked and took
\* the server down.  The log records in the file are those whose write
\* succeeded; the ERROR lines of log_err stand between them and are never on
\* stdout.  File and stdout are equal as long as no write has failed, no
\* ERROR line was appended and no print has panicked.
C5_AttemptsMirrorStdout ==
  /\ IsPrefix(stdout, Attempted)
  /\ Len(Attempted) <= Len(stdout) + 1
  /\ sched # "print_panicked" => Attempted = stdout
  /\ LoggerLines = FileRecords
  /\ Len(access_log) = Len(LoggerLines) + Len(ErrorLines)
  /\ ((\A i \in 1..Len(file_log) : file_log[i].res = "ok")
        /\ ErrorLines = <<>> /\ Attempted = stdout) => access_log = stdout

\* C5 witness: two records printed, the first lost to a failed write, and
\* the file holds the second after an ERROR line of log_err.
C5_Witness ==
  /\ Len(stdout) = 2
  /\ file_log[1].res = "err"
  /\ file_log[2].res = "ok"
  /\ FileRecords = <<stdout[2]>>
  /\ Len(access_log) > 1
  /\ access_log[1].fmt = "error"
  /\ access_log[Len(access_log)] = stdout[2]

\* C6: when the open of the access log failed, handlers can still go on to
\* write their responses and every event received is mirrored to stdout.
C6_OpenFailureKeepsMirror ==
  file = "err" =>
    /\ \A c \in futures : ENABLED (StepParse(c) \/ StepWrite(c) \/ StepFlush(c))
    /\ Len(stdout) = Len(received)

\* C7: the logger receives the events in the order they were enqueued, each
\* once and with the field values it was sent with, and none is lost: what it
\* has received is a prefix of what was sent, every event sent and not yet
\* received is still in the queue, and no connection appears twice.
C7_FifoExactlyOnce ==
  /\ IsPrefix(received, sent)
  /\ sent = received \o queue
  /\ \A i, j \in 1..Len(received) : i # j => received[i].conn # received[j].conn

\* The same while start_server runs its loop; when it returns (run.rs:46) or
\* unwinds, the receiver is dropped with the events still queued.
C7_UnlessServerEnds ==
  /\ IsPrefix(received, sent)
  /\ sched = "loop" => sent = received \o queue
  /\ \A i, j \in 1..Len(received) : i # j => received[i].conn # received[j].conn

\* C8: start_server ends only by a failed bind.
C8_OnlyBindTerminates == sched \in {"bind", "loop", "bind_failed"}

\* C9: when an in-flight handler completes with an error the scheduler
\* reports it, takes exactly that handler out of the set, leaves the others
\* as they were and keeps looping; and in every state of the loop in which a
\* handler has failed, an accept and a step of each in-flight handler are
\* still possible.
C9_HandlerErrorNotFatal ==
  /\ [][\A c \in Conns : (c \in futures /\ hpc'[c] = "err") =>
          /\ sched' = "loop"
          /\ futures' = futures \ {c}
          /\ stderr' = Append(stderr, [src |-> "scheduler", kind |-> "handler", conn |-> c])
          /\ \A d \in futures' : hpc'[d] = hpc[d] /\ hdata'[d] = hdata[d]]_vars
  /\ []((sched = "loop" /\ \E c \in Conns : hpc[c] = "err") =>
          /\ nconn < MaxConn => ENABLED AcceptOk
          /\ \A d \in futures : ENABLED (StepParse(d) \/ StepWrite(d) \/ StepFlush(d)))

\* C10: while the loop runs the logger holds its receiver and has not
\* returned; no iteration has taken the `_ = &mut logger` branch, so
\* start_server has not panicked in unreachable!() (nor in the unwrap of a
\* failed send).
C10_LoggerNeverTerminates ==
  /\ branch # "logger"
  /\ sched # "panicked"
  /\ sched = "loop" => lpc \in {"init", "recv"}

\* C10 witness: the logger waits on an empty queue after every handler has
\* gone; start_server's own sender is the only one left.
C10_Witness ==
  /\ sched = "loop"
  /\ lpc = "recv"
  /\ queue = <<>>
  /\ futures = {}
  /\ Len(received) >= 1

\* C11: whatever the in-flight handlers do, a connection the listener still
\* has to offer is eventually accepted, and every event put on the queue is
\* eventually received by the logger.
C11_NoHeadOfLineBlocking ==
  /\ \A k \in 0..(MaxConn - 1) : (sched = "loop" /\ nconn = k) ~> (nconn > k)
  /\ \A n \in 1..MaxConn : (Len(sent) >= n) ~> (Len(received) >= n)

\* The ways start_server ends after the bind: the listener's error returned
\* (run.rs:46), a panic of print! / eprintln!, a panic of filter_data's unwrap.
ServerEnded == sched \in {"accept_failed", "print_panicked", "unwrap_panicked"}

\* The same with the ways out the code leaves.
C11_UnlessServerEnds ==
  /\ \A k \in 0..(MaxConn - 1) :
       (sched = "loop" /\ nconn = k) ~> (nconn > k \/ ServerEnded)
  /\ \A n \in 1..MaxConn :
       (Len(sent) >= n) ~> (Len(received) >= n \/ ServerEnded)

\* run.rs:76: the request does not match (Some(domain), Some(path)).
Absent(req) == req.host = None \/ req.path = None

\* The handler of c held request req and has just returned Ok after
\* enqueueing one event with req's fields at the tail.
SubmittedOne(c, req, resp) ==
  /\ hpc[c] = "flush"
  /\ Len(sent') = Len(sent) + 1
  /\ SubSeq(sent', 1, Len(sent)) = sent
  /\ LET log == sent'[Len(sent')]
     IN /\ log.conn = c
        /\ log.host = req.host /\ log.path = req.path /\ log.ip = req.ip
        /\ log.user_agent = req.user_agent /\ log.referer = req.referer
        /\ log.status = NormalStatus(resp.status) /\ log.length = resp.length

\* C12 as stated: a handler holding a request without host or path always
\* ends Ok, having written the 404 and submitted exactly one event.
C12_AbsentAlwaysServed ==
  [][\A c \in Conns :
       (hdata[c] # None /\ Absent(hdata[c][1].req) /\ hpc'[c] \in {"ok", "err"})
         => /\ hpc'[c] = "ok"
            /\ hdata[c][1].resp = Resp404
            /\ SubmittedOne(c, hdata[c][1].req, hdata[c][1].resp)]_vars

\* C12 amended: a request without host or path is resolved to the 404
\* response and nothing else, and what the handler writes is that response
\* with its status line untouched; if the handler then returns Ok it has
\* submitted exactly one event with the original absent fields, if it returns
\* an error (write or flush failed) it has submitted nothing; the logger
\* prints an absent path as "None" in both records and an absent host as
\* "None" in the verbose record.
C12_AbsentGets404 ==
  /\ [](\A c \in Conns :
          (hdata[c] # None /\ Absent(hdata[c][1].req)) =>
             /\ hdata[c][1].resp = Resp404
             /\ PrependHeaders(hdata[c][1].resp).status = Http404)
  /\ [][\A c \in Conns :
          (hdata[c] # None /\ Absent(hdata[c][1].req)) =>
             /\ hpc'[c] = "ok" =>
                  /\ SubmittedOne(c, hdata[c][1].req, hdata[c][1].resp)
                  /\ sent'[Len(sent')].status = " 404 NOT FOUND"
             /\ hpc'[c] = "err" => sent' = sent]_vars
  /\ [](file = "ok" =>
          /\ Len(stdout) <= Len(received)
          /\ \A i \in 1..Len(stdout) :
               /\ received[i].path = None => stdout[i].path = "None"
               /\ (received[i].host = None /\ stdout[i].fmt = "big")
                     => stdout[i].host = "None")

\* C12 witness: the logger has printed, in a verbose record, the 404 event of
\* a request with a path but no host, and the event of a request with a host
\* but no path.
C12_Witness ==
  /\ file = "ok"
  /\ \E i \in 1..Len(stdout) :
       /\ received[i].host = None /\ received[i].path # None
       /\ received[i].status = " 404 NOT FOUND"
       /\ stdout[i].fmt = "big" /\ stdout[i].host = "None"
  /\ \E j \in 1..Len(stdout) :
       /\ received[j].path = None /\ received[j].host # None
       /\ stdout[j].path = "None"

\* C13: log_err opens the file at most once, racing first calls included;
\* once the open has failed nothing is ever written through the handle and
\* the mutex is never taken; appends are made holding the mutex, one caller
\* at a time, so the pieces of two appends never interleave in the file.
C13_OpenOnceAppendsSerial ==
  /\ [](/\ le_opens <= 1
        /\ once \in {"ok", "failed"} => le_opens = 1
        /\ once = "failed" => (le_file = <<>> /\ le_mutex = 0)
        /\ \A t \in Callers :
             /\ le_pc[t] \in {"head", "tail"} => (le_mutex = t /\ once = "ok")
             /\ le_pc[t] = "tail" => le_file[Len(le_file)] = <<t, "head">>
        /\ \A i \in 1..Len(le_file) :
             le_file[i][2] = "tail"
                => (i > 1 /\ le_file[i - 1] = <<le_file[i][1], "head">>))
  /\ [][/\ once \in {"ok", "failed"} => (once' = once /\ le_opens' = le_opens)
        /\ le_file' # le_file => \E t \in Callers : le_mutex = t /\ le_pc[t] # le_pc'[t]]_vars

\* The same as long as no calling thread has panicked in eprintln!.
C13_UnlessCallerPanics ==
  /\ []((\A t \in Callers : le_pc[t] # "panicked") =>
        /\ le_opens <= 1
        /\ once \in {"ok", "failed"} => le_opens = 1
        /\ once = "failed" => (le_file = <<>> /\ le_mutex = 0)
        /\ \A t \in Callers :
             /\ le_pc[t] \in {"head", "tail"} => (le_mutex = t /\ once = "ok")
             /\ le_pc[t] = "tail" => le_file[Len(le_file)] = <<t, "head">>
        /\ \A i \in 1..Len(le_file) :
             le_file[i][2] = "tail"
                => (i > 1 /\ le_file[i - 1] = <<le_file[i][1], "head">>))
  /\ [][/\ once \in {"ok", "failed"} => (once' = once /\ le_opens' = le_opens)
        /\ le_file' # le_file => \E t \in Callers : le_mutex = t /\ le_pc[t] # le_pc'[t]]_vars

\* C14 as stated: 500 microseconds render as 500μs, 2,500,000 as 2500ms and
\* 3,000,000 as 3s, with the unit changing at 1000 and 1,000,000.
C14_ElapsedExamples ==
  rendered # None =>
    /\ micros = Some(500) => rendered = Some("500μs")
    /\ micros = Some(2500000) => rendered = Some("2500ms")
    /\ micros = Some(3000000) => rendered = Some("3s")
    /\ micros = Some(999) => rendered = Some("999μs")
    /\ micros = Some(1000) => rendered = Some("1ms")
    /\ micros = Some(999999) => rendered = Some("999ms")
    /\ micros = Some(1000000) => rendered = Some("1s")

\* C14 amended: 500 microseconds render as 500μs, 2,500,000 as 2s (it is
\* 2,500 that render in milliseconds, as 2ms) and 3,000,000 as 3s; below
\* 1000 the value is the microseconds, from 1000 and below 1,000,000 the whole
\* milliseconds, from 1,000,000 the whole seconds.
C14_ElapsedBuckets ==
  (rendered # None /\ micros # None) =>
    LET t == micros[1] IN
    /\ t = 500 => rendered = Some("500μs")
    /\ t = 2500 => rendered = Some("2ms")
    /\ t = 2500000 => rendered = Some("2s")
    /\ t = 3000000 => rendered = Some("3s")
    /\ t = 999 => rendered = Some("999μs")
    /\ t = 1000 => rendered = Some("1ms")
    /\ t = 999999 => rendered = Some("999ms")
    /\ t = 1000000 => rendered = Some("1s")
    /\ t < 1000 => rendered = Some(ToString(t) \o "μs")
    /\ (1000 <= t /\ t < 1000000) =>
         \E v \in 1..999 : /\ v * 1000 <= t /\ t < (v + 1) * 1000
                           /\ rendered = Some(ToString(v) \o "ms")
    /\ 1000000 <= t =>
         \E v \in 1..4 : /\ v * 1000000 <= t /\ t < (v + 1) * 1000000
                         /\ rendered = Some(ToString(v) \o "s")

\* C14 witness: 2,500,000 microseconds have been formatted.
C14_Witness == micros = Some(2500000) /\ rendered = Some("2s")

\* C15: every completed iteration of the select loop took its branch for a
\* real event (a connection accepted or refused, a handler that returned, the
\* logger returning); with no handler in flight the futures.next() branch
\* completes no iteration.
C15_EveryIterationReacts ==
  /\ branch \in {"none", "accept", "next_some", "logger"}
  /\ (sched = "loop" /\ futures = {}) => ~ENABLED NextNone

\* run.rs:98-112 as a step of handler c that puts its event on the queue.
SubmitStep(c) == StepFlush(c) /\ Len(sent') = Len(sent) + 1

\* The statement run.rs:98-112 is never executed against a closed channel:
\* whenever a handler can still be polled the logger holds the receiver.
SubmitNeverFails ==
  \A c \in futures : sched = "loop" => ReceiverAlive

\* C17: a write_all on the access log that returns Err is reported on stderr
\* and changes nothing else about the event's processing: total_conn goes up
\* by one, unique_conn by one exactly when the IP differs from the previous
\* one, prev_ip becomes the event's IP, the record still goes to stdout, the
\* logger is back at recv and start_server keeps looping; and once a write
\* has failed, a queued event can still be received and is processed as any
\* other (one write_all, one stdout record, total_conn + 1).
C17_WriteFailureNotFatal ==
  /\ [][(Len(file_log') = Len(file_log) + 1 /\ file_log'[Len(file_log')].res = "err") =>
          LET m == received'[Len(received')] IN
          /\ Len(received') = Len(received) + 1
          /\ stderr' = Append(stderr, [src |-> "logger", kind |-> "write", conn |-> 0])
          /\ total_conn' = total_conn + 1
          /\ unique_conn' = IF SameIp(prev_ip, m.ip) THEN unique_conn ELSE unique_conn + 1
          /\ prev_ip' = m.ip
          /\ stdout' = Append(stdout, file_log'[Len(file_log')].rec)
          /\ lpc' = "recv"
          /\ sched' = "loop" /\ futures' = futures /\ hpc' = hpc]_vars
  /\ [][((\E i \in 1..Len(file_log) : file_log[i].res = "err")
          /\ Len(received') = Len(received) + 1) =>
          /\ received'[Len(received')] = Head(queue)
          /\ Len(file_log') = Len(file_log) + 1
          /\ Len(stdout') = Len(stdout) + 1
          /\ total_conn' = total_conn + 1
          /\ prev_ip' = Head(queue).ip]_vars
  /\ []((sched = "loop" /\ queue # <<>>
          /\ \E i \in 1..Len(file_log) : file_log[i].res = "err") =>
          lpc = "recv" /\ ENABLED LoggerPoll)

\* The diagnostics of log.rs:173 on stderr.
OpenDiagnostics ==
  Cardinality({i \in 1..Len(stderr) : stderr[i] = [src |-> "logger", kind |-> "open", conn |-> 0]})

\* C18: once the open has failed it stays failed (no second open), every
\* event received since has left exactly one diagnostic on stderr and nothing
\* in the file, and every event put on the queue is eventually received.
C18_OpenFailureDrains ==
  /\ [][file = "err" => (file' = "err" /\ lpc' # "init")]_vars
  /\ [](file = "err" => (OpenDiagnostics = Len(received) /\ file_log = <<>>))
  /\ \A n \in 1..MaxConn :
       (file = "err" /\ Len(sent) >= n) ~> (Len(received) >= n)

\* The same with the ways out the code leaves; an event whose diagnostic
\* panicked has been received without one.
C18_UnlessServerEnds ==
  /\ [][file = "err" => (file' = "err" /\ lpc' # "init")]_vars
  /\ []((file = "err" /\ ~ServerEnded) => (OpenDiagnostics = Len(received) /\ file_log = <<>>))
  /\ \A n \in 1..MaxConn :
       (file = "err" /\ Len(sent) >= n) ~> (Len(received) >= n \/ ServerEnded)

\* C19: a handler's event is put on the queue only in the step in which its
\* flush returned Ok, the handler waits in flush only after its write_all
\* returned Ok, and write_all is only reached after the parse; a handler that
\* has not returned Ok (its write or flush failed, or it is still under way)
\* has submitted nothing.
C19_SubmitAfterWriteAndFlush ==
  /\ [][\A c \in Conns :
          LET before == Cardinality({i \in 1..Len(sent) : sent[i].conn = c})
              after  == Cardinality({i \in 1..Len(sent') : sent'[i].conn = c})
          IN /\ after > before => (hpc[c] = "flush" /\ hpc'[c] = "ok" /\ after = 1)
             /\ (hpc'[c] = "ok" /\ hpc[c] # "ok") => (hpc[c] = "flush" /\ after = 1)
             /\ (hpc'[c] = "flush" /\ hpc[c] # "flush") => hpc[c] = "write"
             /\ (hpc'[c] = "write" /\ hpc[c] # "write") => hpc[c] = "parse"
             /\ (hpc'[c] = "err" /\ hpc[c] # "err") =>
                  (hpc[c] \in {"parse", "write", "flush"} /\ after = 0)]_vars
  /\ [](\A c \in Conns : hpc[c] # "ok" => Submitted(c) = 0)

\* C19 witness: the handler accepted second has written, flushed and
\* submitted; the first has written and waits in flush, its event not yet
\* submitted.
C19_Witness ==
  \E c, d \in Conns :
    /\ d < c
    /\ hpc[c] = "ok" /\ Submitted(c) = 1
    /\ hpc[d] = "flush" /\ Submitted(d) = 0
    /\ sent = <<sent[1]>> /\ sent[1].conn = c

\* C20: at every point where the task can be suspended the sender's mutex
\* is free, and every handler that waits to submit can take its submit step
\* whatever the other handlers are doing.
C20_GuardNeverHeldSuspended ==
  /\ log_mutex = 0
  /\ \A c \in futures :
       (sched = "loop" /\ hpc[c] = "flush") => ENABLED SubmitStep(c)

\* C20 witness: two handlers wait in flush at once, each able to submit,
\* and the mutex is free.
C20_Witness ==
  \E c, d \in futures :
    /\ c # d
    /\ hpc[c] = "flush" /\ hpc[d] = "flush"
    /\ ENABLED SubmitStep(c) /\ ENABLED SubmitStep(d)
    /\ log_mutex = 0

====
